---- MODULE Spec2Model ----
(***************************************************************************)
(* Model of the audit submission pipeline of app.py:                       *)
(*   analyze_image        - ordered failover over the model candidates     *)
(*   save_audit_to_cloud  - verdict parsing, upload, record insert         *)
(*   store_manager_interface - the caller that runs both and shows the     *)
(*                          outcome to the store manager                   *)
(* Text is modelled as a sequence of one-character strings, so that the    *)
(* Python string operations (in, split, replace, strip, upper) are         *)
(* computed character by character as the interpreter computes them.       *)
(***************************************************************************)
EXTENDS Integers, Sequences, FiniteSets, TLC

(***************************************************************************)
(* String literals of the source.                                          *)
(***************************************************************************)
LblCategory ==
    <<"C","a","t","e","g","o","r","y",":">>
LblResult ==
    <<"R","e","s","u","l","t",":">>
LblReason ==
    <<"R","e","a","s","o","n",":">>
General ==
    <<"G","e","n","e","r","a","l">>
PASS ==
    <<"P","A","S","S">>
FAIL ==
    <<"F","A","I","L">>
AIError ==
    <<"A","I"," ","E","r","r","o","r">>
AIErrorPrefix ==
    <<"A","I"," ","E","r","r","o","r"," ">>
SystemBusy ==
    <<"S","y","s","t","e","m"," ","B","u","s","y","."," ","P","l","e","a","s","e"," ","w","a","i","t"," ","3","0"," ","s","e","c","o","n","d","s"," ","a","n","d"," ","t","r","y"," ","a","g","a","i","n",".">>
Delim ==
    "|"

(***************************************************************************)
(* Python str operations, on sequences of characters.                      *)
(***************************************************************************)
Whitespace ==
    {" ", "\t", "\n", "\r"}

LowerLetters ==
    <<"a","b","c","d","e","f","g","h","i","j","k","l","m","n","o","p","q","r","s","t","u","v","w","x","y","z">>
UpperLetters ==
    <<"A","B","C","D","E","F","G","H","I","J","K","L","M","N","O","P","Q","R","S","T","U","V","W","X","Y","Z">>

\* str.upper() on one character
UpperChar(c) ==
    IF \E k \in 1..Len(LowerLetters) : LowerLetters[k] = c
    THEN UpperLetters[CHOOSE k \in 1..Len(LowerLetters) : LowerLetters[k] = c]
    ELSE c

\* s.upper()
Upper(s) ==
    [k \in 1..Len(s) |-> UpperChar(s[k])]

\* s.startswith(sub) at offset k (1-based)
MatchAt(s, sub, k) ==
    /\ k + Len(sub) - 1 <= Len(s)
    /\ \A j \in 1..Len(sub) : s[k + j - 1] = sub[j]

\* sub in s
Contains(s, sub) ==
    \E k \in 1..(Len(s) - Len(sub) + 1) : MatchAt(s, sub, k)

\* c in s, for a single character
HasChar(s, c) ==
    \E k \in 1..Len(s) : s[k] = c

\* s.split(c): the segments between the occurrences of the character c
RECURSIVE Split(_, _)
Split(s, c) ==
    IF ~HasChar(s, c)
    THEN <<s>>
    ELSE LET k == CHOOSE i \in 1..Len(s) : s[i] = c /\ \A j \in 1..(i - 1) : s[j] # c
         IN  <<SubSeq(s, 1, k - 1)>> \o Split(SubSeq(s, k + 1, Len(s)), c)

\* s.replace(old, ""): every non-overlapping occurrence, left to right
RECURSIVE Remove(_, _)
Remove(s, old) ==
    IF Len(s) = 0 THEN <<>>
    ELSE IF MatchAt(s, old, 1)
         THEN Remove(SubSeq(s, Len(old) + 1, Len(s)), old)
         ELSE <<s[1]>> \o Remove(SubSeq(s, 2, Len(s)), old)

\* s.strip()
Strip(s) ==
    IF \A k \in 1..Len(s) : s[k] \in Whitespace
    THEN <<>>
    ELSE LET a == CHOOSE i \in 1..Len(s) :
                      s[i] \notin Whitespace /\ \A j \in 1..(i - 1) : s[j] \in Whitespace
             b == CHOOSE i \in 1..Len(s) :
                      s[i] \notin Whitespace /\ \A j \in (i + 1)..Len(s) : s[j] \in Whitespace
         IN  SubSeq(s, a, b)

\* str(n) for a non-negative integer
Digits ==
    <<"0","1","2","3","4","5","6","7","8","9">>
RECURSIVE IntToStr(_)
IntToStr(n) ==
    IF n < 10 THEN <<Digits[n + 1]>>
    ELSE IntToStr(n \div 10) \o <<Digits[(n % 10) + 1]>>

(***************************************************************************)
(* save_audit_to_cloud, step 1: the verdict parser.                        *)
(***************************************************************************)
\* ParsePart with the .strip() calls left out
ParsePartNoStrip(v, part) ==
    LET c == IF Contains(part, LblCategory)
             THEN Remove(part, LblCategory) ELSE v.category
        s == IF Contains(part, LblResult)
             THEN Remove(part, LblResult) ELSE v.status
        r == IF Contains(part, LblReason)
             THEN Remove(part, LblReason) ELSE v.reason
    IN  [category |-> c, status |-> s, reason |-> r]

\* one iteration of "for part in parts": the three independent ifs
ParsePart(v, part) ==
    LET c == IF Contains(part, LblCategory)
             THEN Strip(Remove(part, LblCategory)) ELSE v.category
        s == IF Contains(part, LblResult)
             THEN Strip(Remove(part, LblResult)) ELSE v.status
        r == IF Contains(part, LblReason)
             THEN Strip(Remove(part, LblReason)) ELSE v.reason
    IN  [category |-> c, status |-> s, reason |-> r]

RECURSIVE ParseParts(_, _)
ParseParts(v, parts) ==
    IF Len(parts) = 0 THEN v
    ELSE ParseParts(ParsePart(v, Head(parts)), Tail(parts))

\* FallbackStatus without the .upper() call
FallbackStatusCaseSensitive(result_text) ==
    IF Contains(result_text, FAIL) THEN FAIL ELSE PASS

\* the fallback for text without the delimiter
FallbackStatus(result_text) ==
    IF Contains(Upper(result_text), FAIL) THEN FAIL ELSE PASS

\* DefaultVerdict with a status default of PASS
DefaultVerdictPass(result_text) ==
    [category |-> General, status |-> PASS, reason |-> result_text]

\* the defaults set before parsing
DefaultVerdict(result_text) ==
    [category |-> General, status |-> FAIL, reason |-> result_text]

ParseVerdict(result_text) ==
    IF HasChar(result_text, Delim)
    THEN ParseParts(DefaultVerdict(result_text), Split(result_text, Delim))
    ELSE [DefaultVerdict(result_text) EXCEPT !.status = FallbackStatus(result_text)]

(***************************************************************************)
(* analyze_image: the model gateway.                                       *)
(***************************************************************************)
\* models_to_try, in priority order
models_to_try ==
    <<"gemini-1.5-flash", "gemini-1.5-flash-002", "gemini-1.5-flash-8b", "gemini-1.5-pro">>

\* the list as it was before 404 was added to it
TransientCodesWithout404 ==
    {429, 503}

\* status codes on which the loop moves on to the next model
TransientCodes ==
    {429, 503, 404}

\* the text a model may answer with (response.json()[...]['text'])
TextScenarioA ==
    <<"C","a","t","e","g","o","r","y",":"," ","T","r","i","a","l"," ","R","o","o","m"," ","|"," ","R","e","s","u","l","t",":"," ","F","A","I","L"," ","|"," ","R","e","a","s","o","n",":"," ","M","e","s","s","y"," ","d","e","s","k">>
TextDelimPass ==
    <<"C","a","t","e","g","o","r","y",":"," ","G","r","e","e","t","e","r"," ","|"," ","R","e","s","u","l","t",":"," ","P","A","S","S"," ","|"," ","R","e","a","s","o","n",":"," ","C","l","e","a","n"," ","e","n","t","r","a","n","c","e">>
TextFreePass ==
    <<"L","o","o","k","s"," ","f","i","n","e",","," ","P","A","S","S">>
TextFreeFail ==
    <<"S","h","i","r","t"," ","u","n","t","u","c","k","e","d",","," ","f","a","i","l">>
TextMessy ==
    <<"R","e","s","u","l","t",":"," ","M","A","Y","B","E"," ","|"," ","C","a","t","e","g","o","r","y",":">>
TextMentionsError ==
    <<"F","A","I","L"," ","-"," ","A","I"," ","E","r","r","o","r"," ","s","h","o","w","n"," ","o","n"," ","t","i","l","l">>
BodyTexts ==
    {TextScenarioA, TextDelimPass, TextFreePass, TextFreeFail, TextMessy, TextMentionsError}

\* status codes a candidate may answer with, other than 200
OtherCodes ==
    {429, 503, 404, 201, 400, 500}

\* what one requests.post can come back with: an HTTP response whose body
\* either carries the text at candidates[0].content.parts[0].text or does
\* not (a 200 or a 201 may carry it), or an exception raised by the transport
Responses ==
    [kind : {"http"}, status : {200}, hasText : {TRUE}, text : BodyTexts]
        \cup [kind : {"http"}, status : {200}, hasText : {FALSE}, text : {<<>>}]
        \cup [kind : {"http"}, status : OtherCodes, hasText : {FALSE}, text : {<<>>}]
        \cup [kind : {"http"}, status : {201}, hasText : {TRUE}, text : {TextDelimPass}]
        \cup [kind : {"fault"}, status : {0}, hasText : {FALSE}, text : {<<>>}]

\* Classify with the test for status 200 never true
ClassifyNo200(resp) ==
    IF resp.kind = "fault" THEN "RETRY_NEXT"
    ELSE IF resp.status \in TransientCodes THEN "RETRY_NEXT"
         ELSE "ABORT"

\* the branch one loop iteration takes on a response
Classify(resp) ==
    IF resp.kind = "fault" THEN "RETRY_NEXT"
    ELSE IF resp.status = 200
         THEN (IF resp.hasText THEN "SUCCESS" ELSE "RETRY_NEXT")
         ELSE IF resp.status \in TransientCodes THEN "RETRY_NEXT"
              ELSE "ABORT"

\* f"AI Error {response.status_code}"
AbortText(status) ==
    AIErrorPrefix \o IntToStr(status)

\* Returns with the else branch continuing instead of returning
ReturnsOnSuccessOnly(branch) ==
    branch = "SUCCESS"

\* the branches that leave the loop with a return statement; the others
\* sleep and continue
Returns(branch) ==
    branch \in {"SUCCESS", "ABORT"}

\* the value returned from inside the loop
ReturnText(branch, resp) ==
    IF branch = "SUCCESS" THEN resp.text ELSE AbortText(resp.status)

(***************************************************************************)
(* save_audit_to_cloud and store_manager_interface.                        *)
(***************************************************************************)
\* the roster: store codes and the manager name of each
Stores ==
    {"S101", "S102"}
MgrOf(code) ==
    IF code = "S101" THEN "Asha" ELSE "Ravi"

\* ObjectKey without the store code: the timestamp alone
ObjectKeyTimeOnly(store_code, t) ==
    [store |-> "", ts |-> t]

\* filename = f"{store_code}_{timestamp}.jpg", timestamp to the second
ObjectKey(store_code, t) ==
    [store |-> store_code, ts |-> t]

\* get_public_url(filename)
PublicUrl(filename) ==
    [bucket |-> "audit-photos", key |-> filename]

\* ShouldSave with the test left out: every text is saved
ShouldSaveAlways(result_text) ==
    TRUE

\* the caller's test before it saves: "AI Error" not in result_text
ShouldSave(result_text) ==
    ~Contains(result_text, AIError)

\* str(e) of the exception a storage or table call raised
ErrUpload ==
    <<"upload raised">>
ErrInsert ==
    <<"insert raised">>
ErrorWord ==
    <<"E","r","r","o","r">>

\* the dict inserted into audit_logs
AuditRecord(store_code, mgr_name, v, img_url, t) ==
    [store_code |-> store_code, manager_name |-> mgr_name,
     audit_type |-> v.category, result |-> v.status, reason |-> v.reason,
     image_url |-> img_url, created_at |-> t]

\* ReturnFailed with the success flag left True
ReturnFailedAsSuccess(msg) ==
    [success |-> TRUE, status |-> msg, category |-> <<"E","r","r","o","r">>,
     reason |-> <<"E","r","r","o","r">>]

\* the two returns of save_audit_to_cloud
ReturnSaved(v) ==
    [success |-> TRUE, status |-> v.status, category |-> v.category, reason |-> v.reason]
ReturnFailed(msg) ==
    [success |-> FALSE, status |-> msg, category |-> ErrorWord, reason |-> ErrorWord]

\* ShowReturn without the test of the success flag
ShowReturnIgnoringSuccess(r) ==
    IF r.status = PASS
    THEN [kind |-> "PASS", category |-> r.category, text |-> r.reason]
    ELSE [kind |-> "FAIL", category |-> r.category, text |-> r.reason]

\* what the caller shows for a return of save_audit_to_cloud
ShowReturn(r) ==
    IF r.success
    THEN IF r.status = PASS
         THEN [kind |-> "PASS", category |-> r.category, text |-> r.reason]
         ELSE [kind |-> "FAIL", category |-> r.category, text |-> r.reason]
    ELSE [kind |-> "UPLOAD_FAILED", category |-> <<>>, text |-> r.status]

\* what the caller shows when it does not save: st.error(result_text)
ShowErrorText(result_text) ==
    [kind |-> "ERROR_TEXT", category |-> <<>>, text |-> result_text]

NoReturn ==
    [success |-> FALSE, status |-> <<>>, category |-> <<>>, reason |-> <<>>]
NoDisplay ==
    [kind |-> "NONE", category |-> <<>>, text |-> <<>>]
NoVerdict ==
    [category |-> <<>>, status |-> <<>>, reason |-> <<>>]
NoKey ==
    [store |-> "", ts |-> 0]
NoResponse ==
    [kind |-> "none", status |-> 0, hasText |-> FALSE, text |-> <<>>]

(***************************************************************************)
(* Bounds of the model.                                                    *)
(***************************************************************************)
MaxCaptures ==
    2
MaxTime ==
    1

VARIABLES
    session,      \* st.session_state: code and mgr of the logged-in store
    pc,           \* where the current capture's run stands
    captures,     \* number of captures submitted so far
    idx,          \* position in models_to_try of the next dispatch
    attempts,     \* the dispatches of the current run: model index and branch
    lastResp,     \* the response of the latest dispatch
    gwOutcome,    \* how analyze_image returned: DELIVERED, ABORT or EXHAUSTED
    result_text,  \* the return value of analyze_image
    verdict,      \* category, status, reason after parsing
    filename,     \* the object key derived for the current run
    writerRan,    \* save_audit_to_cloud was called for the current capture
    uploaded,     \* the current run's upload completed
    logsBefore,   \* number of rows of audit_logs when the current capture began
    saveFailed,   \* the current run's upload or insert raised
    ret,          \* the tuple save_audit_to_cloud returned
    display,      \* what the store manager is shown
    pin,          \* the text handed to the parsing step, with the values it was built from
    pout,         \* the verdict the parsing step produced
    ppc,          \* whether the parsing step has run on pin
    image,        \* width and height of the photo taken
    transport,    \* width and height of the JPEG sent to the models
    archive,      \* width and height of the JPEG uploaded to storage
    runs,         \* two sessions saving at the same time: the locals of each
    objects,      \* keys stored in the audit-photos bucket
    audit_logs,   \* rows of the audit_logs table
    now           \* the clock, in seconds

vars ==
    <<session, pc, captures, idx, attempts, lastResp, gwOutcome, result_text,
      verdict, filename, writerRan, uploaded, logsBefore, saveFailed, ret, display,
      pin, pout, ppc, image, transport, archive, runs, objects, audit_logs, now>>

runVars ==
    <<idx, attempts, lastResp, gwOutcome, result_text>>
saveVars ==
    <<verdict, filename, writerRan, uploaded, logsBefore, saveFailed, ret>>
cloudVars ==
    <<objects, audit_logs>>
parserVars ==
    <<pin, pout, ppc>>
imageVars ==
    <<image, transport, archive>>
concVars ==
    <<runs>>

NoInput ==
    [text |-> <<>>, kind |-> "none", order |-> <<>>, pad |-> <<>>,
     category |-> <<>>, status |-> <<>>, reason |-> <<>>]

PipelineInit ==
    /\ session \in {[code |-> c, mgr |-> MgrOf(c)] : c \in Stores}
    /\ pc = "idle"
    /\ captures = 0
    /\ idx = 1
    /\ attempts = <<>>
    /\ lastResp = NoResponse
    /\ gwOutcome = "NONE"
    /\ result_text = <<>>
    /\ verdict = NoVerdict
    /\ filename = NoKey
    /\ writerRan = FALSE
    /\ uploaded = FALSE
    /\ logsBefore = 0
    /\ saveFailed = FALSE
    /\ ret = NoReturn
    /\ display = NoDisplay
    /\ objects = {}
    /\ audit_logs = <<>>
    /\ now = 0

\* no photo is being converted
NoSize ==
    [w |-> 0, h |-> 0]
ImageIdle ==
    /\ image = NoSize
    /\ transport = NoSize
    /\ archive = NoSize

\* no second session is saving
ConcIdle ==
    runs = <<>>

ParserIdle ==
    /\ pin = NoInput
    /\ pout = NoVerdict
    /\ ppc = "off"

Init ==
    /\ PipelineInit
    /\ ParserIdle
    /\ ImageIdle
    /\ ConcIdle

\* the store manager takes a photo and presses "Run Smart Audit"
Capture ==
    /\ pc = "idle"
    /\ captures < MaxCaptures
    /\ captures' = captures + 1
    /\ pc' = "dispatch"
    /\ idx' = 1
    /\ attempts' = <<>>
    /\ lastResp' = NoResponse
    /\ gwOutcome' = "NONE"
    /\ result_text' = <<>>
    /\ verdict' = NoVerdict
    /\ filename' = NoKey
    /\ writerRan' = FALSE
    /\ uploaded' = FALSE
    /\ logsBefore' = Len(audit_logs)
    /\ saveFailed' = FALSE
    /\ ret' = NoReturn
    /\ display' = NoDisplay
    /\ UNCHANGED <<parserVars, imageVars, concVars, session, cloudVars, now>>

\* one iteration of "for model_name in models_to_try", and the return
\* after the loop when the last model was passed over
Dispatch ==
    /\ pc = "dispatch"
    /\ \E resp \in Responses :
        LET branch == Classify(resp) IN
        /\ attempts' = Append(attempts, [model |-> idx, branch |-> branch])
        /\ lastResp' = resp
        /\ IF Returns(branch)
           THEN /\ result_text' = ReturnText(branch, resp)
                /\ gwOutcome' = (IF branch = "SUCCESS" THEN "DELIVERED" ELSE "ABORT")
                /\ pc' = "returned"
                /\ idx' = idx
           ELSE IF idx < Len(models_to_try)
                THEN /\ idx' = idx + 1
                     /\ UNCHANGED <<result_text, gwOutcome, pc>>
                ELSE /\ result_text' = SystemBusy
                     /\ gwOutcome' = "EXHAUSTED"
                     /\ pc' = "returned"
                     /\ idx' = idx
    /\ UNCHANGED <<parserVars, imageVars, concVars, session, captures, saveVars, display, cloudVars, now>>

\* the caller's branch on the text; when it saves, save_audit_to_cloud up to
\* the upload call: parse, compress, derive the object key
BeginSave ==
    /\ pc = "returned"
    /\ ShouldSave(result_text)
    /\ writerRan' = TRUE
    /\ verdict' = ParseVerdict(result_text)
    /\ filename' = ObjectKey(session.code, now)
    /\ pc' = "upload"
    /\ UNCHANGED <<parserVars, imageVars, concVars, session, captures, runVars, uploaded, logsBefore,
                   saveFailed, ret, display, cloudVars, now>>

\* the caller's else branch: the text is shown as an error, nothing is saved
ShowError ==
    /\ pc = "returned"
    /\ ~ShouldSave(result_text)
    /\ display' = ShowErrorText(result_text)
    /\ pc' = "idle"
    /\ UNCHANGED <<parserVars, imageVars, concVars, session, captures, runVars, saveVars, cloudVars, now>>

\* storage upload succeeds: the key did not exist
UploadOk ==
    /\ pc = "upload"
    /\ filename \notin objects
    /\ objects' = objects \cup {filename}
    /\ uploaded' = TRUE
    /\ pc' = "insert"
    /\ UNCHANGED <<parserVars, imageVars, concVars, session, captures, runVars, verdict, filename,
                   writerRan, logsBefore, saveFailed, ret, display, audit_logs, now>>

\* UploadRaises with the exception swallowed: the writer goes on to the insert
UploadRaisesAndGoesOn ==
    /\ pc = "upload"
    /\ pc' = "insert"
    /\ UNCHANGED <<parserVars, imageVars, concVars, session, captures, runVars, saveVars,
                   display, cloudVars, now>>

\* storage upload raises (network, policy, or the key exists already):
\* the except branch returns the failure and the caller shows it
UploadRaises ==
    /\ pc = "upload"
    /\ saveFailed' = TRUE
    /\ ret' = ReturnFailed(ErrUpload)
    /\ display' = ShowReturn(ret')
    /\ pc' = "idle"
    /\ UNCHANGED <<parserVars, imageVars, concVars, session, captures, runVars, verdict, filename,
                   writerRan, uploaded, logsBefore, cloudVars, now>>

\* get_public_url, the insert succeeds, the return and the result card
InsertOk ==
    /\ pc = "insert"
    /\ audit_logs' = Append(audit_logs,
                            AuditRecord(session.code, session.mgr, verdict,
                                        PublicUrl(filename), now))
    /\ ret' = ReturnSaved(verdict)
    /\ display' = ShowReturn(ret')
    /\ pc' = "idle"
    /\ UNCHANGED <<parserVars, imageVars, concVars, session, captures, runVars, verdict, filename, writerRan,
                   uploaded, logsBefore, saveFailed, objects, now>>

\* the insert raises: the except branch returns the failure
InsertRaises ==
    /\ pc = "insert"
    /\ saveFailed' = TRUE
    /\ ret' = ReturnFailed(ErrInsert)
    /\ display' = ShowReturn(ret')
    /\ pc' = "idle"
    /\ UNCHANGED <<parserVars, imageVars, concVars, session, captures, runVars, verdict, filename,
                   writerRan, uploaded, logsBefore, cloudVars, now>>

\* a second passes on the wall clock
Tick ==
    /\ now < MaxTime
    /\ now' = now + 1
    /\ UNCHANGED <<parserVars, imageVars, concVars, session, pc, captures, runVars, saveVars, display, cloudVars>>

Next ==
    \/ Capture
    \/ Dispatch
    \/ BeginSave
    \/ ShowError
    \/ UploadOk
    \/ UploadRaises
    \/ InsertOk
    \/ InsertRaises
    \/ Tick

Spec ==
    Init /\ [][Next]_vars

(***************************************************************************)
(* The pipeline with a model that may never answer. requests.post is       *)
(* called without a timeout argument, so the call returns only when the    *)
(* server answers or the transport raises.                                 *)
(***************************************************************************)
\* requests.post is sent to the model at idx and no answer ever comes
DispatchHangs ==
    /\ pc = "dispatch"
    /\ attempts' = Append(attempts, [model |-> idx, branch |-> "NO_ANSWER"])
    /\ pc' = "blocked"
    /\ UNCHANGED <<parserVars, imageVars, concVars, session, captures, idx, lastResp, gwOutcome,
                   result_text, saveVars, display, cloudVars, now>>

NextLive ==
    \/ Next
    \/ DispatchHangs

\* the interpreter keeps running the loop: while an iteration with an
\* answer is possible it is taken
SpecLive ==
    Init /\ [][NextLive]_vars /\ WF_vars(Dispatch)

(***************************************************************************)
(* The parsing step of save_audit_to_cloud on its own: result_text is any  *)
(* text a caller can pass.                                                 *)
(***************************************************************************)
CatTrialRoom ==
    <<"T","r","i","a","l"," ","R","o","o","m">>
CatWithDelim ==
    <<"S","h","e","l","f","|","R","a","c","k">>
ResMaybe ==
    <<"m","a","y","b","e">>
ReaMessy ==
    <<"M","e","s","s","y"," ","d","e","s","k">>
ReaWithLabel ==
    <<"S","e","e"," ","R","e","s","u","l","t",":"," ","b","a","d">>
FreeLower ==
    <<"a","l","l"," ","g","o","o","d",","," ","n","o"," ","f","a","i","l","u","r","e"," ","s","e","e","n">>
FreeOk ==
    <<"S","t","o","r","e"," ","i","s"," ","t","i","d","y">>
FreeMixed ==
    <<"F","a","I","l","e","d",":"," ","n","o"," ","I","D">>

\* values of the three labelled segments
CategoryValues ==
    {CatTrialRoom, <<>>, CatWithDelim}
ResultValues ==
    {PASS, FAIL, ResMaybe}
ReasonValues ==
    {ReaMessy, <<>>, ReaWithLabel}

\* whitespace put around the label and the value of a segment
Pads ==
    {<<>>, <<" ">>, <<"\t", " ">>}

\* the six orders of the three labels
LabelOrders ==
    {o \in [1..3 -> {"category", "status", "reason"}] :
        \A i, j \in 1..3 : i # j => o[i] # o[j]}

LabelOf(field) ==
    CASE field = "category" -> LblCategory
      [] field = "status" -> LblResult
      [] field = "reason" -> LblReason

\* one labelled segment: "<pad>Label:<pad>value<pad>"
Segment(field, value, pad) ==
    pad \o LabelOf(field) \o pad \o value \o pad

\* the three labelled segments in the order o, joined by the delimiter
LabelledText(o, vals, pad) ==
    Segment(o[1], vals[o[1]], pad) \o <<Delim>>
        \o Segment(o[2], vals[o[2]], pad) \o <<Delim>>
        \o Segment(o[3], vals[o[3]], pad)

LabelledInputs ==
    {[text |-> LabelledText(o, [category |-> c, status |-> s, reason |-> r], pad),
      kind |-> "labelled", order |-> o, pad |-> pad,
      category |-> c, status |-> s, reason |-> r] :
        o \in LabelOrders, c \in CategoryValues, s \in ResultValues,
        r \in ReasonValues, pad \in Pads}

\* status codes for which analyze_image returns "AI Error <code>"
TerminalCodes ==
    {201, 400, 401, 403, 500}

OtherInput(text, kind) ==
    [text |-> text, kind |-> kind, order |-> <<>>, pad |-> <<>>,
     category |-> <<>>, status |-> <<>>, reason |-> <<>>]

AbortInputs ==
    {OtherInput(AbortText(code), "abort") : code \in TerminalCodes}

SentinelInputs ==
    {OtherInput(SystemBusy, "sentinel")}

FreeInputs ==
    {OtherInput(t, "free") :
        t \in {<<>>, PASS, FAIL, TextFreePass, TextFreeFail, FreeLower, FreeOk,
               FreeMixed, TextMentionsError}}

\* delimited texts in which one or more of the labels do not occur
TextNoLabels ==
    <<"m","e","s","s","y"," ","d","e","s","k"," ","|"," ","d","i","r","t","y"," ","m","i","r","r","o","r">>
TextLowerLabels ==
    <<"c","a","t","e","g","o","r","y",":"," ","G","r","e","e","t","e","r"," ","|"," ","r","e","s","u","l","t",":"," ","P","A","S","S">>
SampleValues ==
    [category |-> CatTrialRoom, status |-> PASS, reason |-> ReaMessy]
TwoSegmentTexts ==
    {Segment(f, SampleValues[f], pad) \o <<Delim>> \o Segment(g, SampleValues[g], pad) :
        f \in {"category", "status", "reason"},
        g \in {"category", "status", "reason"}, pad \in Pads}
OneSegmentTexts ==
    {Segment(f, SampleValues[f], pad) \o <<Delim>> \o FreeOk :
        f \in {"category", "status", "reason"}, pad \in Pads}
PartialInputs ==
    {OtherInput(t, "partial") :
        t \in {TextMessy, <<Delim>>, TextNoLabels, TextLowerLabels}
               \cup TwoSegmentTexts \cup OneSegmentTexts}

ParserInputs ==
    LabelledInputs \cup AbortInputs \cup SentinelInputs \cup FreeInputs
        \cup PartialInputs

InitParser ==
    /\ PipelineInit
    /\ ImageIdle
    /\ ConcIdle
    /\ pin \in ParserInputs
    /\ pout = NoVerdict
    /\ ppc = "ready"

\* lines 111-126 run on the text
ParserCall ==
    /\ ppc = "ready"
    /\ pout' = ParseVerdict(pin.text)
    /\ ppc' = "parsed"
    /\ UNCHANGED <<pin, imageVars, concVars, session, pc, captures, runVars, saveVars, display,
                   cloudVars, now>>

NextParser ==
    ParserCall

SpecParser ==
    InitParser /\ [][NextParser]_vars

(***************************************************************************)
(* The two JPEG encodings of a photo: analyze_image saves the image as it  *)
(* is; save_audit_to_cloud copies it and calls thumbnail((800, 800)).      *)
(* Image.thumbnail is computed as Pillow computes it, with the quotients   *)
(* compared exactly.                                                       *)
(***************************************************************************)
\* the size given to thumbnail
ThumbnailBound ==
    800

Abs(n) ==
    IF n < 0 THEN -n ELSE n

\* round_aspect for the width: of floor and ceiling of bound*w/h the one
\* whose ratio to bound is nearest to w/h (the floor on a tie), at least 1
RoundWidth(w, h, bound) ==
    LET f == (bound * w) \div h
        c == IF (bound * w) % h = 0 THEN f ELSE f + 1
        n == IF Abs(w * bound - f * h) <= Abs(w * bound - c * h) THEN f ELSE c
    IN  IF n < 1 THEN 1 ELSE n

\* round_aspect for the height: of floor and ceiling of bound*h/w the one
\* for which bound/n is nearest to w/h (key 0 for n = 0), at least 1
RoundHeight(w, h, bound) ==
    LET f == (bound * h) \div w
        c == IF (bound * h) % w = 0 THEN f ELSE f + 1
        n == IF f = 0 THEN f
             ELSE IF Abs(w * f - bound * h) * c <= Abs(w * c - bound * h) * f
                  THEN f ELSE c
    IN  IF n < 1 THEN 1 ELSE n

\* thumbnail without the test that leaves a small image alone
ThumbnailAlwaysResizes(size, bound) ==
    IF size.h >= size.w
    THEN [w |-> RoundWidth(size.w, size.h, bound), h |-> bound]
    ELSE [w |-> bound, h |-> RoundHeight(size.w, size.h, bound)]

\* image.thumbnail((bound, bound)): the size after the call
Thumbnail(size, bound) ==
    IF bound >= size.w /\ bound >= size.h
    THEN size
    ELSE IF size.h >= size.w
         THEN [w |-> RoundWidth(size.w, size.h, bound), h |-> bound]
         ELSE [w |-> bound, h |-> RoundHeight(size.w, size.h, bound)]

\* image.save(buffered, format="JPEG") in analyze_image: the size encoded
TransportSize(size) ==
    size

\* image.copy(), thumbnail, save in save_audit_to_cloud: the size encoded
ArchiveSize(size) ==
    Thumbnail(size, ThumbnailBound)

\* widths and heights of the photos
Edges ==
    {1, 2, 3, 400, 799, 800, 801, 1200, 1601, 4000}

InitImage ==
    /\ PipelineInit
    /\ ParserIdle
    /\ ConcIdle
    /\ image \in [w : Edges, h : Edges]
    /\ transport = NoSize
    /\ archive = NoSize

\* analyze_image lines 32-34
EncodeTransport ==
    /\ image # NoSize
    /\ transport = NoSize
    /\ transport' = TransportSize(image)
    /\ UNCHANGED <<parserVars, concVars, image, archive, session, pc, captures,
                   runVars, saveVars, display, cloudVars, now>>

\* save_audit_to_cloud lines 129-133
EncodeArchive ==
    /\ transport # NoSize
    /\ archive = NoSize
    /\ archive' = ArchiveSize(image)
    /\ UNCHANGED <<parserVars, concVars, image, transport, session, pc, captures,
                   runVars, saveVars, display, cloudVars, now>>

NextImage ==
    \/ EncodeTransport
    \/ EncodeArchive

SpecImage ==
    InitImage /\ [][NextImage]_vars

(***************************************************************************)
(* Two sessions, one per store, each in its own call of                    *)
(* save_audit_to_cloud; the calls share the bucket, the table and the      *)
(* clock, and their steps interleave freely.                               *)
(***************************************************************************)
\* the gateway texts the two calls are given
ConcTexts ==
    {TextScenarioA, TextFreePass}

\* str(e) of the storage error for a key that exists already
ErrDuplicate ==
    <<"duplicate">>

\* the locals of a call that has not started
NewRun(text) ==
    [pc |-> "returned", result_text |-> text, verdict |-> NoVerdict,
     filename |-> NoKey, ret |-> NoReturn]

InitConc ==
    /\ PipelineInit
    /\ session.code = "S101"
    /\ ParserIdle
    /\ ImageIdle
    /\ runs \in {[s \in Stores |-> NewRun(txt[s])] : txt \in [Stores -> ConcTexts]}

\* the locals of the call of store s after a step
SetRun(s, r) ==
    [runs EXCEPT ![s] = r]

\* store s: parse, compress, derive the object key
ConcBeginSave(s) ==
    /\ runs[s].pc = "returned"
    /\ runs' = SetRun(s, [runs[s] EXCEPT !.pc = "upload",
                                         !.verdict = ParseVerdict(runs[s].result_text),
                                         !.filename = ObjectKey(s, now)])
    /\ UNCHANGED <<parserVars, imageVars, session, pc, captures, runVars, saveVars,
                   display, cloudVars, now>>

\* store s: the upload is accepted, the key did not exist
ConcUploadOk(s) ==
    /\ runs[s].pc = "upload"
    /\ runs[s].filename \notin objects
    /\ objects' = objects \cup {runs[s].filename}
    /\ runs' = SetRun(s, [runs[s] EXCEPT !.pc = "insert"])
    /\ UNCHANGED <<parserVars, imageVars, session, pc, captures, runVars, saveVars,
                   display, audit_logs, now>>

\* str(e) of the exception the upload of key raised: the key exists
\* already, or a reason of the call's own (network, policy)
UploadError(key) ==
    IF key \in objects THEN ErrDuplicate ELSE ErrUpload

\* store s: the upload raises, the except branch returns the failure
ConcUploadRaises(s) ==
    /\ runs[s].pc = "upload"
    /\ runs' = SetRun(s, [runs[s] EXCEPT !.pc = "failed",
                                         !.ret = ReturnFailed(UploadError(runs[s].filename))])
    /\ UNCHANGED <<parserVars, imageVars, session, pc, captures, runVars, saveVars,
                   display, cloudVars, now>>

\* store s: get_public_url, the insert succeeds, the return
ConcInsertOk(s) ==
    /\ runs[s].pc = "insert"
    /\ audit_logs' = Append(audit_logs,
                            AuditRecord(s, MgrOf(s), runs[s].verdict,
                                        PublicUrl(runs[s].filename), now))
    /\ runs' = SetRun(s, [runs[s] EXCEPT !.pc = "done",
                                         !.ret = ReturnSaved(runs[s].verdict)])
    /\ UNCHANGED <<parserVars, imageVars, session, pc, captures, runVars, saveVars,
                   display, objects, now>>

\* store s: the insert raises for a reason of its own
ConcInsertRaises(s) ==
    /\ runs[s].pc = "insert"
    /\ runs' = SetRun(s, [runs[s] EXCEPT !.pc = "failed",
                                         !.ret = ReturnFailed(ErrInsert)])
    /\ UNCHANGED <<parserVars, imageVars, session, pc, captures, runVars, saveVars,
                   display, cloudVars, now>>

NextConc ==
    \/ \E s \in Stores : ConcBeginSave(s)
    \/ \E s \in Stores : ConcUploadOk(s)
    \/ \E s \in Stores : ConcUploadRaises(s)
    \/ \E s \in Stores : ConcInsertOk(s)
    \/ \E s \in Stores : ConcInsertRaises(s)
    \/ Tick

SpecConc ==
    InitConc /\ [][NextConc]_vars

(***************************************************************************)
(* Properties.                                                             *)
(***************************************************************************)
\* number of rows the current capture added to audit_logs
inserted ==
    Len(audit_logs) - logsBefore

\* the current capture's run is over and its outcome is on the screen
RunOver ==
    pc = "idle" /\ captures > 0

\* the row most recently added to audit_logs
LastRecord ==
    audit_logs[Len(audit_logs)]

\* the retry message the specification gives for the exhausted case
RetryMessage ==
    <<"S","y","s","t","e","m"," ","E","r","r","o","r"," ","-"," ","P","l","e","a","s","e"," ","R","e","t","r","y">>

C2_ExhaustedIsRecordedAsFail ==
    (gwOutcome = "EXHAUSTED" /\ writerRan) =>
        /\ verdict.status # PASS
        /\ verdict = [category |-> General, status |-> FAIL, reason |-> RetryMessage]
        /\ (RunOver /\ inserted = 1 =>
                /\ LastRecord.audit_type = General
                /\ LastRecord.result = FAIL
                /\ LastRecord.reason = RetryMessage)

\* C3, as stated: whatever text the parsing step is given, the verdict has
\* status PASS or FAIL and a category that is not empty.
C3_VerdictWellFormed ==
    ppc = "parsed" =>
        /\ pout.status \in {PASS, FAIL}
        /\ pout.category # <<>>

\* C4, as stated: every "AI Error <status code>" text parses to status FAIL.
C4_AbortTextParsesToFail ==
    (ppc = "parsed" /\ pin.kind = "abort") => pout.status = FAIL

\* C5: in one run of analyze_image there are at most len(models_to_try)
\* dispatches, the i-th dispatch goes to the i-th model (each model at most
\* once, in list order), and a response with a terminal status (any status
\* other than 200, 429, 503, 404) is the last dispatch of the run.
C5_BoundedOrderedDispatch ==
    /\ Len(attempts) <= Len(models_to_try)
    /\ \A i \in 1..Len(attempts) : attempts[i].model = i
    /\ \A i \in 1..(Len(attempts) - 1) : attempts[i].branch # "ABORT"
    /\ (lastResp.kind = "http" /\ lastResp.status \notin {200, 429, 503, 404}) =>
            /\ pc # "dispatch"
            /\ gwOutcome = "ABORT"
            /\ attempts[Len(attempts)].branch = "ABORT"

\* C5 witness: the third model answered with a terminal status, the run is
\* over and the fourth model was never tried.
C5_Witness ==
    /\ RunOver
    /\ gwOutcome = "ABORT"
    /\ lastResp.status = 500
    /\ Len(attempts) = 3

C8_FailedSaveIsNotAVerdict ==
    /\ (writerRan /\ ~uploaded) => inserted = 0
    /\ saveFailed =>
        /\ RunOver
        /\ inserted = 0
        /\ ret.success = FALSE
        /\ display.kind = "UPLOAD_FAILED"
        /\ display.kind \notin {"PASS", "FAIL"}

\* C8 witness: the upload raised, the run is over, nothing was inserted.
C8_Witness ==
    /\ RunOver
    /\ saveFailed
    /\ ~uploaded
    /\ ret.status = ErrUpload
    /\ display.kind = "UPLOAD_FAILED"

CleanValue(v) ==
    /\ ~HasChar(v, Delim)
    /\ ~Contains(v, LblCategory)
    /\ ~Contains(v, LblResult)
    /\ ~Contains(v, LblReason)

\* the verdict made of the labelled values of the input, trimmed
LabelledValues ==
    [category |-> Strip(pin.category), status |-> Strip(pin.status),
     reason |-> Strip(pin.reason)]

\* C10, as stated: for a text of the three labelled segments in any order,
\* with any values, the parser sets category, status and reason to the
\* trimmed value of the segment with that label.
C10_LabelledValuesExtracted ==
    (ppc = "parsed" /\ pin.kind = "labelled") => pout = LabelledValues

\* C10, amended: for a text of the three labelled segments in any order,
\* whose values contain neither "|" nor any of the strings "Category:",
\* "Result:", "Reason:", the parser sets category, status and reason to the
\* trimmed value of the segment with that label.
C10_CleanLabelledValuesExtracted ==
    (/\ ppc = "parsed"
     /\ pin.kind = "labelled"
     /\ CleanValue(pin.category)
     /\ CleanValue(pin.status)
     /\ CleanValue(pin.reason)) => pout = LabelledValues

\* C10 witness: the segments come in the order Reason, Result, Category with
\* whitespace around labels and values, and the values were extracted.
C10_Witness ==
    /\ ppc = "parsed"
    /\ pin.kind = "labelled"
    /\ pin.order = <<"reason", "status", "category">>
    /\ pin.pad = <<"\t", " ">>
    /\ pin.category = CatTrialRoom
    /\ pin.status = ResMaybe
    /\ pin.reason = ReaMessy
    /\ pout = [category |-> CatTrialRoom, status |-> ResMaybe, reason |-> ReaMessy]

\* the text contains the letters f, a, i, l in a row, in either case
MentionsFail(text) ==
    \E k \in 1..(Len(text) - 3) :
        /\ text[k] \in {"F", "f"}
        /\ text[k + 1] \in {"A", "a"}
        /\ text[k + 2] \in {"I", "i"}
        /\ text[k + 3] \in {"L", "l"}

\* C11: for every text without the "|" delimiter the parser gives status
\* FAIL if the text contains "FAIL" in any mix of upper and lower case and
\* PASS otherwise, category "General", and the text itself as the reason.
C11_FreeFormStatus ==
    (ppc = "parsed" /\ ~HasChar(pin.text, "|")) =>
        /\ pout.status = (IF MentionsFail(pin.text) THEN FAIL ELSE PASS)
        /\ pout.category = General
        /\ pout.reason = pin.text

\* C11 witness: a text with "fail" in lower case was parsed to FAIL.
C11_Witness ==
    /\ ppc = "parsed"
    /\ pin.text = TextFreeFail
    /\ pout = [category |-> General, status |-> FAIL, reason |-> TextFreeFail]

\* C14: for every text with the "|" delimiter, a field whose label occurs in
\* no segment keeps its default: status "FAIL" without "Result:", category
\* "General" without "Category:", the whole text as reason without "Reason:".
C14_AbsentLabelKeepsDefault ==
    (ppc = "parsed" /\ HasChar(pin.text, "|")) =>
        /\ (\A i \in 1..Len(Split(pin.text, "|")) :
                ~Contains(Split(pin.text, "|")[i], LblResult))
            => pout.status = FAIL
        /\ (\A i \in 1..Len(Split(pin.text, "|")) :
                ~Contains(Split(pin.text, "|")[i], LblCategory))
            => pout.category = General
        /\ (\A i \in 1..Len(Split(pin.text, "|")) :
                ~Contains(Split(pin.text, "|")[i], LblReason))
            => pout.reason = pin.text

\* C14 witness: a delimited text with a Category and a Reason segment and no
\* Result segment was parsed; status is the default FAIL.
C14_Witness ==
    /\ ppc = "parsed"
    /\ pin.kind = "partial"
    /\ Contains(pin.text, LblCategory)
    /\ Contains(pin.text, LblReason)
    /\ ~Contains(pin.text, LblResult)
    /\ pout = [category |-> CatTrialRoom, status |-> FAIL, reason |-> ReaMessy]

\* C12, as stated: every run of analyze_image ends as delivered, aborted or
\* exhausted, whatever the models do, one that never answers included.
C12_EveryRunTerminates ==
    (pc = "dispatch") ~> (gwOutcome \in {"DELIVERED", "ABORT", "EXHAUSTED"})

LongerEdge(size) ==
    IF size.w >= size.h THEN size.w ELSE size.h

ReferencedKeys ==
    {audit_logs[i].image_url.key : i \in 1..Len(audit_logs)}

\* the stored objects that no row refers to and that no running writer is
\* about to insert a row for
Orphans ==
    {k \in objects : k \notin ReferencedKeys /\ ~(pc = "insert" /\ filename = k)}

\* C15, the state part: every row's image_url refers to a stored object; the
\* writer is at the insert only after its own upload completed; a row
\* inserted by the current run refers to the object the run uploaded.
C15_RowsReferToUploads ==
    /\ ReferencedKeys \subseteq objects
    /\ pc = "insert" => (uploaded /\ filename \in objects)
    /\ (writerRan /\ inserted = 1) =>
            (uploaded /\ LastRecord.image_url = PublicUrl(filename))

\* C15, the step part: a row is added only by a writer whose upload
\* completed earlier in the same run, and with the URL of that object;
\* rows and objects are never removed; an unreferenced object stays
\* unreferenced (no rollback, no retry of the insert).
C15_StepKeepsOrder ==
    /\ objects \subseteq objects'
    /\ Len(audit_logs') >= Len(audit_logs)
    /\ SubSeq(audit_logs', 1, Len(audit_logs)) = audit_logs
    /\ Len(audit_logs') > Len(audit_logs) =>
        /\ Len(audit_logs') = Len(audit_logs) + 1
        /\ pc = "insert"
        /\ uploaded
        /\ filename \in objects
        /\ audit_logs'[Len(audit_logs')].image_url = PublicUrl(filename)
    /\ Orphans \subseteq Orphans'

\* C15: in save_audit_to_cloud the upload comes before the URL and the
\* insert and nothing is rolled back: in every reachable state each row's
\* image_url refers to an object whose upload completed earlier in the same
\* run, and an object left without a row is never deleted or given a row.
C15_UploadThenInsertNoRollback ==
    []C15_RowsReferToUploads /\ [][C15_StepKeepsOrder]_vars

\* C15 witness: the first capture's insert raised after its upload, a later
\* capture was saved; the first object is stored and no row refers to it.
C15_Witness ==
    /\ RunOver
    /\ captures = 2
    /\ Cardinality(objects) = 2
    /\ Len(audit_logs) = 1
    /\ Cardinality(Orphans) = 1
    /\ ret.success
    /\ LastRecord.image_url = PublicUrl(filename)

\* the status word of the result card on the screen
ShownStatus ==
    IF display.kind = "PASS" THEN PASS ELSE FAIL

\* C16, as stated: whenever save_audit_to_cloud reports success, the row
\* inserted in that run has audit_type, result and reason equal to the
\* parsed category, status and reason, store_code and manager_name equal to
\* the session's, and the status, category and reason returned and shown on
\* the screen are the values stored in the row; the text "Category: Trial
\* Room | Result: FAIL | Reason: Messy desk" gives audit_type "Trial Room",
\* result "FAIL", reason "Messy desk".
C16_RowReturnAndScreenAgree ==
    (RunOver /\ ret.success) =>
        /\ inserted = 1
        /\ LastRecord.audit_type = verdict.category
        /\ LastRecord.result = verdict.status
        /\ LastRecord.reason = verdict.reason
        /\ verdict = ParseVerdict(result_text)
        /\ LastRecord.store_code = session.code
        /\ LastRecord.manager_name = session.mgr
        /\ ret.status = LastRecord.result
        /\ ret.category = LastRecord.audit_type
        /\ ret.reason = LastRecord.reason
        /\ display.kind \in {"PASS", "FAIL"}
        /\ display.category = LastRecord.audit_type
        /\ display.text = LastRecord.reason
        /\ ShownStatus = LastRecord.result
        /\ result_text = TextScenarioA =>
            /\ LastRecord.audit_type = <<"T","r","i","a","l"," ","R","o","o","m">>
            /\ LastRecord.result = FAIL
            /\ LastRecord.reason = <<"M","e","s","s","y"," ","d","e","s","k">>

\* the rows of audit_logs that carry the store code s
RowsOf(s) ==
    {i \in 1..Len(audit_logs) : audit_logs[i].store_code = s}

\* the call of store s has derived its object key
HasKey(s) ==
    runs[s].pc \notin {"returned"}

\* C17, the state part: two calls from different stores hold different
\* object keys; no upload meets a key that exists already; a call that
\* passed its upload finds its object stored; a finished call has exactly
\* one row, with its own verdict, its own store and its own image URL; a call
\* that has not finished has no row.
C17_RunsKeepApart ==
    /\ \A s \in Stores : \A t \in Stores \ {s} :
            (HasKey(s) /\ HasKey(t)) => runs[s].filename # runs[t].filename
    /\ \A s \in Stores :
        /\ runs[s].pc = "upload" => runs[s].filename \notin objects
        /\ runs[s].ret.status # ErrDuplicate
        /\ HasKey(s) => runs[s].filename.store = s
        /\ runs[s].pc \in {"insert", "done"} => runs[s].filename \in objects
        /\ runs[s].pc # "done" => RowsOf(s) = {}
        /\ runs[s].pc = "done" =>
            /\ Cardinality(RowsOf(s)) = 1
            /\ \A i \in RowsOf(s) :
                /\ audit_logs[i].audit_type = ParseVerdict(runs[s].result_text).category
                /\ audit_logs[i].result = ParseVerdict(runs[s].result_text).status
                /\ audit_logs[i].reason = ParseVerdict(runs[s].result_text).reason
                /\ audit_logs[i].manager_name = MgrOf(s)
                /\ audit_logs[i].image_url = PublicUrl(runs[s].filename)
            /\ runs[s].ret = ReturnSaved(ParseVerdict(runs[s].result_text))

\* C17, the step part: a step of one call leaves the other call's locals,
\* the stored objects and the rows already inserted as they are.
C17_StepLeavesOtherAlone ==
    /\ objects \subseteq objects'
    /\ SubSeq(audit_logs', 1, Len(audit_logs)) = audit_logs
    /\ \A s \in Stores : \A t \in Stores \ {s} :
            runs'[s] # runs[s] => runs'[t] = runs[t]

\* C17: for any interleaving of two calls of save_audit_to_cloud from
\* different stores, the two calls derive different object keys, neither
\* call's upload or insert fails or is overwritten because of the other, and
\* each call's row carries its own verdict and its own image reference.
C17_DifferentStoresIndependent ==
    []C17_RunsKeepApart /\ [][C17_StepLeavesOtherAlone]_vars

\* C17 witness: both stores saved within the same second, with different
\* texts; two objects and two rows exist.
C17_Witness ==
    /\ \A s \in Stores : runs[s].pc = "done" /\ runs[s].filename.ts = 0
    /\ runs["S101"].result_text = TextScenarioA
    /\ runs["S102"].result_text = TextFreePass
    /\ Cardinality(objects) = 2
    /\ Len(audit_logs) = 2
    /\ audit_logs[1].store_code = "S102"
    /\ audit_logs[2].result = FAIL
====
